---- MODULE Spec2Model ----
(***************************************************************************)
(* Resource-aware test admission (package testing of spjmurray/testing).   *)
(*                                                                         *)
(* Start() copies the declared resources into the unallocated pool and     *)
(* starts one coordinator goroutine.  Every test calls Parallel(), which   *)
(* either skips the test or sends a transaction on the unbuffered enqueue  *)
(* channel, blocks on its private wait channel and returns a closure that  *)
(* sends the test's resources on the unbuffered release channel.  The      *)
(* coordinator receives one message, then ranges over the whole queue and  *)
(* releases every test whose resources can be satisfied.                   *)
(***************************************************************************)
EXTENDS Integers, FiniteSets, Sequences, TLC

(* ---------------------------- bounds ----------------------------------- *)

\* number of tests that call Parallel
MaxProcs == 3

\* largest quantity of a resource type a test asks for
MaxQty == 2

(* ---------------------------- data ------------------------------------- *)

Procs == 1 .. MaxProcs

\* resource type names; "gpu" is never declared
Types == {"cpu", "memory", "gpu"}

\* a ResourceSet maps some resource types to a quantity; the tests of the
\* model ask for at least 1 of every type they name
ResourceSets == UNION {[S -> 1 .. MaxQty] : S \in SUBSET Types}

\* the argument given to Start by TestMain, scaled down: two declared
\* resource types, one that two tests can hold at once and one that only
\* one test can hold
resources == [cpu |-> 2, memory |-> 1]

\* reading a Go map: a missing key reads as the zero value
Get(m, k) == IF k \in DOMAIN m THEN m[k] ELSE 0

\* delete(m, k)
Delete(m, k) == [x \in DOMAIN m \ {k} |-> m[x]]

\* as Put, keeping the value of a key that is already in the map
PutIfAbsent(m, k, v) == IF k \in DOMAIN m THEN m ELSE [x \in DOMAIN m \cup {k} |-> IF x = k THEN v ELSE m[x]]

\* m[k] = v
Put(m, k, v) == [x \in DOMAIN m \cup {k} |-> IF x = k THEN v ELSE m[x]]

\* all orders in which a range statement may visit the keys S
Orders(S) == {o \in [1 .. Cardinality(S) -> S] : \A i, j \in 1 .. Cardinality(S) : i # j => o[i] # o[j]}

(* ---------------------------- Parallel --------------------------------- *)

\* as CanRun, with >= in place of >
CanRunStrict(avail, required) == \A k \in DOMAIN required : ~(k \notin DOMAIN avail \/ required[k] >= avail[k])

\* as CanRun, without the test of ok: a missing type reads as 0
CanRunNoOk(avail, required) == \A k \in DOMAIN required : ~(required[k] > Get(avail, k))

\* the loop at the top of Parallel: FALSE when t.Skipf is called
CanRun(avail, required) == \A k \in DOMAIN required : ~(k \notin DOMAIN avail \/ required[k] > avail[k])

(* ---------------------------- coordinator ------------------------------ *)

\* as Free, never putting more in the pool than was declared
FreeCapped(unalloc, allocated) == [k \in DOMAIN unalloc \cup DOMAIN allocated |-> IF Get(unalloc, k) + Get(allocated, k) > Get(resources, k) THEN Get(resources, k) ELSE Get(unalloc, k) + Get(allocated, k)]

\* as Free, with = in place of +=
FreeAssign(unalloc, allocated) == [k \in DOMAIN unalloc \cup DOMAIN allocated |-> IF k \in DOMAIN allocated THEN allocated[k] ELSE unalloc[k]]

\* case allocated := <-release: every quantity goes back to the pool
Free(unalloc, allocated) == [k \in DOMAIN unalloc \cup DOMAIN allocated |-> Get(unalloc, k) + Get(allocated, k)]

\* as Satisfied, with <= in place of <
SatisfiedStrict(unalloc, required) == \A k \in DOMAIN required : ~(Get(unalloc, k) <= required[k])

\* as Satisfied, with ok set by any one resource type that is available
SatisfiedSome(unalloc, required) == DOMAIN required = {} \/ \E k \in DOMAIN required : ~(Get(unalloc, k) < required[k])

\* the inner loop that computes ok
Satisfied(unalloc, required) == \A k \in DOMAIN required : ~(Get(unalloc, k) < required[k])

\* as Allocate, leaving the loop after the first resource type
AllocateOne(unalloc, required) == IF DOMAIN required = {} THEN unalloc ELSE LET k == CHOOSE x \in DOMAIN required : TRUE IN [x \in DOMAIN unalloc \cup {k} |-> IF x = k THEN Get(unalloc, k) - required[k] ELSE unalloc[x]]

\* the loop that removes the required resources from the pool
Allocate(unalloc, required) == [k \in DOMAIN unalloc \cup DOMAIN required |-> Get(unalloc, k) - Get(required, k)]

\* as Grant, without the delete
GrantNoDelete(st, n) == [unallocated |-> Allocate(st.unallocated, st.queue[n].required), queue |-> st.queue, closed |-> st.closed \cup {st.queue[n].wait}, panic |-> st.queue[n].wait \in st.closed]

\* the body of the if ok: allocate, delete the item, close its channel.
\* Closing a closed channel panics.
Grant(st, n) == [unallocated |-> Allocate(st.unallocated, st.queue[n].required), queue |-> Delete(st.queue, n), closed |-> st.closed \cup {st.queue[n].wait}, panic |-> st.queue[n].wait \in st.closed]

\* one iteration of the range over the queue
Visit(st, n) == IF st.panic THEN st ELSE IF Satisfied(st.unallocated, st.queue[n].required) THEN Grant(st, n) ELSE st

\* as Schedule, leaving the range at the first item that cannot be satisfied
RECURSIVE ScheduleInOrder(_, _)
ScheduleInOrder(st, order) == IF order = <<>> THEN st ELSE IF Visit(st, Head(order)) = st THEN st ELSE ScheduleInOrder(Visit(st, Head(order)), Tail(order))

\* as Schedule, leaving the range after the first item
ScheduleFirst(st, order) == IF order = <<>> THEN st ELSE Visit(st, Head(order))

\* the range over the queue, visiting the keys in the given order
RECURSIVE Schedule(_, _)
Schedule(st, order) == IF order = <<>> THEN st ELSE Schedule(Visit(st, Head(order)), Tail(order))

(* ---------------------------- state ------------------------------------ *)

\* available, unallocated, queue: the package variables of the same names.
\* closed: the tests whose wait channel is closed.
\* panic: the coordinator closed a closed channel and the program stopped.
\* maxParallel: the number of tests the runner lets run in parallel (the
\*   -parallel flag of go test), fixed for the run.
\* pc: where each test is: "start" before Parallel, "skipped" after
\*   t.Skipf, "paused" inside t.Parallel() until the runner resumes the
\*   test, "enqueue" at the send on enqueue, "wait" at the receive from
\*   wait, "release" at the send on release, "done" after it.
\* name: t.Name() of each test; the testing package keeps names distinct.
\* required: the argument of Parallel while the test is between the call
\*   and the end of the closure; the empty set otherwise.
\*
\* The coordinator receives no message inside its range over the queue and
\* the tests read nothing it writes, so a receive and the range that follows
\* it are one step.  The runner starts the test functions one after another,
\* each running up to t.Parallel() or t.Skipf before the next starts; it
\* resumes the tests paused in t.Parallel() once all have been started, at
\* most maxParallel of them running at a time.

VARIABLES available, maxParallel, unallocated, queue, closed, panic, pc, name, required

vars == <<available, maxParallel, unallocated, queue, closed, panic, pc, name, required>>

\* the state when Start returns and no test has called Parallel yet
Init ==
    /\ available = resources
    /\ maxParallel \in 1 .. MaxProcs
    /\ unallocated = [k \in DOMAIN resources |-> resources[k]]
    /\ queue = <<>>
    /\ closed = {}
    /\ panic = FALSE
    /\ pc = [p \in Procs |-> "start"]
    /\ name = [p \in Procs |-> p]
    /\ required = [p \in Procs |-> <<>>]

\* the coordinator's variables after the range over the queue
Scheduled(st, order) ==
    LET end == Schedule(st, order)
    IN /\ unallocated' = end.unallocated
       /\ queue' = end.queue
       /\ closed' = end.closed
       /\ panic' = end.panic

\* Parallel with resources that can run, up to the call of t.Parallel(),
\* which pauses the test
Parallel(p, r) ==
    /\ ~panic
    /\ pc[p] = "start"
    /\ \A q \in Procs : q < p => pc[q] # "start"
    /\ CanRun(available, r)
    /\ required' = [required EXCEPT ![p] = r]
    /\ pc' = [pc EXCEPT ![p] = "paused"]
    /\ UNCHANGED <<available, maxParallel, unallocated, queue, closed, panic, name>>

\* the tests that take one of the runner's maxParallel places: resumed and
\* not yet ended
Running == {q \in Procs : pc[q] \in {"enqueue", "wait", "release", "again"}}

\* t.Parallel() returns: every test function has been started and fewer
\* than maxParallel tests are running; Parallel goes on to the send on
\* enqueue
Resume(p) ==
    /\ ~panic
    /\ pc[p] = "paused"
    /\ \A q \in Procs : pc[q] # "start"
    /\ Cardinality(Running) < maxParallel
    /\ pc' = [pc EXCEPT ![p] = "enqueue"]
    /\ UNCHANGED <<available, maxParallel, unallocated, queue, closed, panic, name, required>>

\* Parallel with resources that cannot run: t.Skipf ends the test
Skip(p, r) ==
    /\ ~panic
    /\ pc[p] = "start"
    /\ \A q \in Procs : q < p => pc[q] # "start"
    /\ ~CanRun(available, r)
    /\ pc' = [pc EXCEPT ![p] = "skipped"]
    /\ UNCHANGED <<available, maxParallel, unallocated, queue, closed, panic, name, required>>

\* the coordinator's variables after case transaction := <-enqueue, with
\* the transaction of test p
Enqueued(p) == [unallocated |-> unallocated, queue |-> Put(queue, name[p], [wait |-> p, required |-> required[p]]), closed |-> closed, panic |-> FALSE]

\* the coordinator's variables after case allocated := <-release, with the
\* resources of test p
Released(p) == [unallocated |-> Free(unallocated, required[p]), queue |-> queue, closed |-> closed, panic |-> FALSE]

\* enqueue <- transaction meets case transaction := <-enqueue, and the
\* coordinator goes through the queue
RecvEnqueue(p) ==
    /\ ~panic
    /\ pc[p] = "enqueue"
    /\ \E order \in Orders(DOMAIN Enqueued(p).queue) : Scheduled(Enqueued(p), order)
    /\ pc' = [pc EXCEPT ![p] = "wait"]
    /\ UNCHANGED <<available, maxParallel, name, required>>

\* <-wait returns once the channel is closed and Parallel returns the
\* closure; the test runs and calls it, which blocks on release <- required
Wake(p) ==
    /\ ~panic
    /\ pc[p] = "wait"
    /\ p \in closed
    /\ pc' = [pc EXCEPT ![p] = "release"]
    /\ UNCHANGED <<available, maxParallel, unallocated, queue, closed, panic, name, required>>

\* as RecvRelease, going back to the select without the range over the queue
RecvReleaseNoPass(p) ==
    /\ ~panic
    /\ pc[p] = "release"
    /\ unallocated' = Free(unallocated, required[p])
    /\ pc' = [pc EXCEPT ![p] = "done"]
    /\ required' = [required EXCEPT ![p] = <<>>]
    /\ UNCHANGED <<available, maxParallel, queue, closed, panic, name>>

\* release <- required meets case allocated := <-release, and the
\* coordinator goes through the queue
RecvRelease(p) ==
    /\ ~panic
    /\ pc[p] = "release"
    /\ \E order \in Orders(DOMAIN Released(p).queue) : Scheduled(Released(p), order)
    /\ pc' = [pc EXCEPT ![p] = "done"]
    /\ required' = [required EXCEPT ![p] = <<>>]
    /\ UNCHANGED <<available, maxParallel, name>>

Next ==
    \/ \E p \in Procs, r \in ResourceSets : Parallel(p, r)
    \/ \E p \in Procs, r \in ResourceSets : Skip(p, r)
    \/ \E p \in Procs : Resume(p)
    \/ \E p \in Procs : RecvEnqueue(p)
    \/ \E p \in Procs : Wake(p)
    \/ \E p \in Procs : RecvRelease(p)

Spec == Init /\ [][Next]_vars

\* the Go scheduler runs a goroutine that can run: while a test can start,
\* a send can be received or a closed channel can be read, a step is taken
FairSpec == Spec /\ WF_vars(Next)

\* a run with more tests than MaxProcs, of which the model follows MaxProcs
\* at a time: once a test has ended, another test that is paused in
\* t.Parallel(), with resources that can run and a wait channel of its own,
\* takes its place
Restart(p, r) ==
    /\ ~panic
    /\ pc[p] = "done"
    /\ CanRun(available, r)
    /\ required' = [required EXCEPT ![p] = r]
    /\ pc' = [pc EXCEPT ![p] = "paused"]
    /\ closed' = closed \ {p}
    /\ UNCHANGED <<available, maxParallel, unallocated, queue, panic, name>>

NextStream ==
    \/ Next
    \/ \E p \in Procs, r \in ResourceSets : Restart(p, r)

SpecStream == Init /\ [][NextStream]_vars

\* a caller that does not keep names distinct: the second test gives the
\* name of the first
InitDup ==
    /\ available = resources
    /\ maxParallel \in 1 .. MaxProcs
    /\ unallocated = [k \in DOMAIN resources |-> resources[k]]
    /\ queue = <<>>
    /\ closed = {}
    /\ panic = FALSE
    /\ pc = [p \in Procs |-> "start"]
    /\ name = [p \in Procs |-> IF p = 2 THEN 1 ELSE p]
    /\ required = [p \in Procs |-> <<>>]

SpecDup == InitDup /\ [][Next]_vars

FairDup == SpecDup /\ WF_vars(Next)

\* the first test calls the closure it got from Parallel twice: the first
\* release <- required is received, and the test goes on to the second call
RecvReleaseFirst(p) ==
    /\ ~panic
    /\ p = 1
    /\ pc[p] = "release"
    /\ \E order \in Orders(DOMAIN Released(p).queue) : Scheduled(Released(p), order)
    /\ pc' = [pc EXCEPT ![p] = "again"]
    /\ UNCHANGED <<available, maxParallel, name, required>>

\* the second release <- required of the same closure is received
RecvReleaseAgain(p) ==
    /\ ~panic
    /\ pc[p] = "again"
    /\ \E order \in Orders(DOMAIN Released(p).queue) : Scheduled(Released(p), order)
    /\ pc' = [pc EXCEPT ![p] = "done"]
    /\ required' = [required EXCEPT ![p] = <<>>]
    /\ UNCHANGED <<available, maxParallel, name>>

NextMisuse ==
    \/ Next
    \/ \E p \in Procs : RecvReleaseFirst(p)
    \/ \E p \in Procs : RecvReleaseAgain(p)

SpecMisuse == Init /\ [][NextMisuse]_vars

(* ---------------------------- vocabulary of the properties ------------- *)

\* tests whose wait channel is closed and whose release is not yet received
Held == {p \in Procs : p \in closed /\ pc[p] \in {"wait", "release"}}

\* tests blocked on their wait channel, not yet released by the coordinator
Pending == {p \in Procs : pc[p] = "wait" /\ p \notin closed}

\* the quantity of type k that the tests of S require together
RECURSIVE Demand(_, _)
Demand(S, k) == IF S = {} THEN 0 ELSE LET p == CHOOSE x \in S : TRUE IN Get(required[p], k) + Demand(S \ {p}, k)

\* the resource sets a call of Parallel is tried with, quantity 0 included
Requests == UNION {[S -> 0 .. MaxQty] : S \in SUBSET Types}

\* the resource set r can never be satisfied by the declared resources
Infeasible(r) == \E k \in DOMAIN r : k \notin DOMAIN available \/ r[k] > available[k]

\* the resource set of test p fits in the pool u
Fits(u, p) == \A k \in DOMAIN required[p] : k \in DOMAIN u /\ required[p][k] <= u[k]

\* test p has an item on the queue
Queued(p) == \E n \in DOMAIN queue : queue[n].wait = p

\* in a step: the tests released by the coordinator, the test whose release
\* was received, the test whose transaction was received
Granted == closed' \ closed

Releaser == {p \in Procs : pc[p] = "release" /\ pc'[p] = "done"}

Sender == {p \in Procs : pc[p] = "enqueue" /\ pc'[p] = "wait"}

(* ---------------------------- C1 --------------------------------------- *)

NoOverAllocationState == \A k \in Types : Get(unallocated, k) >= 0 /\ Demand(Held, k) <= Get(available, k)

NoOverAllocationStep == \A k \in Types : Demand(Granted, k) <= Get(unallocated, k) + Demand(Releaser, k)

\* C1: no over-allocation.  In every reachable state no quantity of the pool
\* is negative and the tests that were released and have not yet given their
\* resources back require together at most the declared quantity of every
\* type; and the tests released in one pass over the queue require together
\* no more than what was unallocated when the pass started.
NoOverAllocation == [](NoOverAllocationState) /\ [][NoOverAllocationStep]_vars

\* a test holds resources and another waits because what it requires is not free
NoOverAllocationWitness == \E p \in Held, q \in Pending : \E k \in DOMAIN required[q] : Get(required[p], k) > 0 /\ Get(unallocated, k) < required[q][k]

(* ---------------------------- C2 --------------------------------------- *)

\* C2: capacity invariant.  Whenever the coordinator waits for its next
\* message, for every resource type the unallocated quantity plus the
\* quantities required by the tests that hold a grant equals the declared
\* quantity.
CapacityInvariant == \A k \in Types : Get(unallocated, k) + Demand(Held, k) = Get(available, k)

\* two tests hold the same resource type at once after a third gave its resources back
CapacityInvariantWitness == \E p, q \in Held : p # q /\ (\E k \in DOMAIN required[p] \cap DOMAIN required[q] : Get(unallocated, k) < Get(available, k)) /\ (\E d \in Procs : pc[d] = "done")

(* ---------------------------- C3 --------------------------------------- *)

\* test p is the next one the runner starts
Starting(p) == ~panic /\ pc[p] = "start" /\ \A q \in Procs : q < p => pc[q] # "start"

RejectionCall == \A p \in Procs : Starting(p) => \A r \in Requests : Infeasible(r) => ENABLED Skip(p, r) /\ ~ENABLED Parallel(p, r)

RejectionState == (\A n \in DOMAIN queue : ~Infeasible(queue[n].required)) /\ (\A p \in Procs : pc[p] = "skipped" => ~Queued(p) /\ name[p] \notin DOMAIN queue /\ p \notin closed)

RejectionStep == \A p \in Procs : (pc[p] = "start" /\ pc'[p] = "skipped" => unallocated' = unallocated /\ queue' = queue /\ closed' = closed) /\ (pc[p] = "skipped" => pc'[p] = "skipped")

\* C3: rejection on infeasibility.  A call of Parallel with a resource type
\* that is not declared, or with more of a type than is declared, skips the
\* test and cannot go on to the send on enqueue; the skip changes neither
\* the pool nor the queue, and a skipped test stays skipped: it is never on
\* the queue, never released, and never sends on enqueue or release.
RejectionOnInfeasibility == [](RejectionCall /\ RejectionState) /\ [][RejectionStep]_vars

\* a test was skipped while another one waits on the queue
RejectionWitness == \E p \in Procs, q \in Pending : pc[p] = "skipped" /\ Queued(q)

(* ---------------------------- C4 --------------------------------------- *)

\* test p has an item on the queue q
QueuedIn(q, p) == \E n \in DOMAIN q : q[n].wait = p

FeasibleCall == \A p \in Procs : Starting(p) => \A r \in Requests : ~Infeasible(r) => ENABLED Parallel(p, r) /\ ~ENABLED Skip(p, r)

FeasibleState == \A p \in Pending : name[p] \in DOMAIN queue /\ queue[name[p]] = [wait |-> p, required |-> required[p]]

FeasibleStep == \A p \in Procs : (pc[p] = "paused" => pc'[p] \in {"paused", "enqueue"}) /\ (pc[p] = "enqueue" => pc'[p] \in {"enqueue", "wait"}) /\ (p \in Pending /\ p \notin closed' => pc'[p] = "wait" /\ QueuedIn(queue', p))

\* C4: feasible but unavailable is queued, never skipped.  A call of
\* Parallel whose resources are all declared and not above the declared
\* quantity is never skipped, whatever is unallocated: it goes on to
\* t.Parallel() and from there to the send on enqueue, and once its transaction is received the test stays on
\* the queue, blocked, until a pass over the queue releases it.
FeasibleIsQueued == [](FeasibleCall /\ FeasibleState) /\ [][FeasibleStep]_vars

\* a test whose resources are declared but not free waits on the queue,
\* while another test is still paused in t.Parallel()
FeasibleIsQueuedWitness == \E p \in Pending, q \in Procs : ~Fits(unallocated, p) /\ ~Infeasible(required[p]) /\ Queued(p) /\ pc[q] = "paused"

(* ---------------------------- C5 --------------------------------------- *)

\* the resources of q fit in the pool once h has given its resources back
FitsAfter(h, q) == \A k \in DOMAIN required[q] : required[q][k] <= Get(unallocated, k) + Get(required[h], k)

NeverBothHeld == \A p, q \in Held : p # q => \A k \in Types : Get(required[p], k) + Get(required[q], k) <= Get(available, k)

\* C5 as stated: two tests that together require more than is declared are
\* never both held, and when the release of a holder makes the resources of
\* a pending test fit, the pass over the queue for that release releases it.
ReleaseUnblocksAsStated == [](NeverBothHeld) /\ [][\A h \in Releaser, q \in Pending : FitsAfter(h, q) => q \in closed']_vars

\* C5, amended: two tests that together require more than is declared are
\* never both held; when the release of a holder makes the resources of a
\* pending test fit, the pass over the queue for that release (no message
\* on enqueue is received) releases that test, unless the same pass has
\* released other pending tests and what they leave is less than it requires.
ReleaseUnblocks == [](NeverBothHeld) /\ [][\A h \in Releaser, q \in Pending : FitsAfter(h, q) => Sender = {} /\ (q \in closed' \/ (Granted # {} /\ ~Fits(unallocated', q)))]_vars

\* a holder is about to give its resources back, and that makes the
\* resources of a pending test fit, which do not fit before
ReleaseUnblocksWitness == \E h \in Held, q \in Pending : pc[h] = "release" /\ FitsAfter(h, q) /\ ~Fits(unallocated, q)

(* ---------------------------- C6 --------------------------------------- *)

\* C6: immediate admission.  When the transaction of a test is received and
\* its resources fit in what is unallocated at that moment, the pass over the
\* queue for that message releases the test: its channel is closed, its item
\* is off the queue and its resources are taken from the pool, in that same
\* step and without any release.
ImmediateAdmission == [][\A p \in Sender : Fits(unallocated, p) => Releaser = {} /\ p \in closed' /\ ~QueuedIn(queue', p) /\ \A k \in DOMAIN required[p] : unallocated'[k] <= unallocated[k] - required[p][k]]_vars

\* a test is about to send its transaction and what it requires is free,
\* while another test holds resources and a third is left on the queue
ImmediateAdmissionWitness == \E p \in Procs, h \in Held, q \in Pending : pc[p] = "enqueue" /\ Fits(unallocated, p) /\ \E k \in DOMAIN required[p] : required[p][k] > 0

(* ---------------------------- C7 --------------------------------------- *)

\* C7: teardown.  Once every test that was released has given its
\* resources back, exactly once each, the pool is what Start made it:
\* unallocated equals the declared resources.
TeardownRestoresPool == Held = {} => unallocated = available

\* every test has ended, two of them after holding resources
TeardownWitness == Held = {} /\ (\A p \in Procs : pc[p] \in {"done", "skipped"}) /\ \E p, q \in Procs : p # q /\ pc[p] = "done" /\ pc[q] = "done"

(* ---------------------------- C8 --------------------------------------- *)

SerialStep == Cardinality(Sender \cup Releaser) <= 1 /\ (unallocated' # unallocated \/ queue' # queue \/ closed' # closed => Cardinality(Sender \cup Releaser) = 1) /\ (\A p \in Procs : pc'[p] # pc[p] /\ p \notin Sender \cup Releaser => unallocated' = unallocated /\ queue' = queue /\ closed' = closed)

\* C8: concurrent safety by serialization.  Every step that changes the
\* pool, the queue or a wait channel receives exactly one message, from one
\* test; the steps a test takes by itself change none of them; and in
\* every interleaving the quantities held and unallocated add up to the
\* declared resources, the items on the queue being those of blocked tests.
ConcurrentSafety == [](\A k \in Types : Get(available, k) - Get(unallocated, k) = Demand(Held, k) /\ \A n \in DOMAIN queue : queue[n].wait \in Pending) /\ [][SerialStep]_vars

\* all tests are in flight at once: one holds, one waits, one is sending
ConcurrentSafetyWitness == \E p, q, r \in Procs : p \in Held /\ required[p] # <<>> /\ q \in Pending /\ pc[r] = "enqueue"

(* ---------------------------- C9 --------------------------------------- *)

\* the pending tests fit together in the pool once h has given its resources back
AllFitAfter(h) == \A k \in Types : Demand(Pending, k) <= Get(unallocated, k) + Get(required[h], k)

\* C9: the pass over the queue is maximal.  Whenever the coordinator waits
\* for a message, every test left on the queue requires more of some
\* resource type than is unallocated; and when after a release the pending
\* tests fit together, that one pass releases them all.
PassIsMaximal == [](\A p \in Pending : \E k \in DOMAIN required[p] : Get(unallocated, k) < required[p][k]) /\ [][\A h \in Releaser : AllFitAfter(h) => Pending \subseteq closed']_vars

\* a holder is about to give its resources back while two tests are left
\* on the queue, both requiring something, which then fit together
PassIsMaximalWitness == \E h \in Held : pc[h] = "release" /\ AllFitAfter(h) /\ \E p, q \in Pending : p # q /\ (\E k \in DOMAIN required[p] : Get(unallocated, k) < required[p][k]) /\ (\E k \in DOMAIN required[q] : Get(unallocated, k) < required[q][k])

(* ---------------------------- C10 -------------------------------------- *)

GrantedState == ~panic /\ \A p \in Procs : (pc[p] \in {"release", "done"} => p \in closed) /\ (p \in closed => ~Queued(p))

GrantedStep == closed \subseteq closed' /\ (\A p \in Granted : (p \in Sender \/ Queued(p)) /\ ~QueuedIn(queue', p)) /\ (\A p \in Procs : Queued(p) /\ ~QueuedIn(queue', p) => p \in Granted) /\ (\A k \in Types : Get(unallocated', k) = Get(unallocated, k) + Demand(Releaser, k) - Demand(Granted, k))

\* C10: every request is granted at most once.  No wait channel is closed
\* twice; a test is past its blocking point only if its channel was closed;
\* a channel is closed only in the step that takes the item off the queue
\* and takes all it requires from the pool, an item leaves the queue only
\* that way, and a released test is never on the queue again.
GrantedOnce == [](GrantedState) /\ [][GrantedStep]_vars

\* a released test is past its blocking point while another is still blocked
GrantedOnceWitness == \E p, q \in Procs : pc[p] = "release" /\ required[p] # <<>> /\ q \in Pending

(* ---------------------------- reachability ----------------------------- *)

\* no pass releases two tests: TLC finds this violated, since one release
\* can release several pending tests
OneGrantPerPass == [][Cardinality(Granted) <= 1]_vars

(* ---------------------------- C11 -------------------------------------- *)

\* in a step: what is unallocated once the message is received, the tests
\* whose resources fit in it, the tests the pass can release
PoolAfter(k) == Get(unallocated, k) + Demand(Releaser, k)

FitsPool(q) == \A k \in DOMAIN required[q] : required[q][k] <= PoolAfter(k)

Candidates == Pending \cup Sender

NoHeadOfLineStep == Sender \cup Releaser # {} => \A q \in Candidates : FitsPool(q) => ((\A r \in Candidates \ {q} : ~FitsPool(r)) => q \in closed') /\ (q \in Sender => \A r \in Pending : r \notin closed' /\ QueuedIn(queue', r))

\* C11: no head-of-line blocking and no FIFO order.  When a message is
\* received and the resources of one test on the queue fit while those of
\* every other test on the queue do not, the pass releases that test, in
\* whatever order it visits the items; and when it is the test just put on
\* the queue, the tests put on the queue before it stay on the queue, blocked.
NoHeadOfLine == [][NoHeadOfLineStep]_vars

\* a test is about to be put on the queue and what it requires is free,
\* while a test put on the queue before it requires more of the same
\* resource type than is free
NoHeadOfLineWitness == \E p \in Procs, q \in Pending : pc[p] = "enqueue" /\ Fits(unallocated, p) /\ \E k \in DOMAIN required[p] \cap DOMAIN required[q] : unallocated[k] < required[q][k]

(* ---------------------------- C12 -------------------------------------- *)

\* a test that requires all the cpu, and one that requires one cpu
Big == [cpu |-> resources.cpu]

Small == [cpu |-> 1]

\* test b waits on the queue for all the cpu, the runner lets three tests
\* run at a time, and apart from x and y every test has ended
Starved(b, x, y) == b # x /\ b # y /\ x # y /\ maxParallel >= 3 /\ b \in Pending /\ Queued(b) /\ required[b] = Big /\ \A z \in Procs \ {b, x, y} : pc[z] \in {"skipped", "done"}

\* test y holds one cpu and has not yet seen its channel closed
HoldsSmall(y) == pc[y] = "wait" /\ y \in closed /\ required[y] = Small

\* the five states of the round: x holds one cpu and y is sent; both hold;
\* x has given back and ended; a paused test has taken the place of x; it
\* is resumed and about to be sent
Round0(b, x, y) == Starved(b, x, y) /\ pc[x] = "release" /\ x \in closed /\ required[x] = Small /\ pc[y] = "enqueue" /\ required[y] = Small

Round1(b, x, y) == Starved(b, x, y) /\ pc[x] = "release" /\ x \in closed /\ required[x] = Small /\ HoldsSmall(y)

Round2(b, x, y) == Starved(b, x, y) /\ pc[x] = "done" /\ HoldsSmall(y)

Round3(b, x, y) == Starved(b, x, y) /\ pc[x] = "paused" /\ required[x] = Small /\ HoldsSmall(y)

Round4(b, x, y) == Starved(b, x, y) /\ pc[x] = "enqueue" /\ required[x] = Small /\ HoldsSmall(y)

\* C12: starvation is possible.  From every state in which a test waits for
\* all the cpu while one small test holds one cpu and the next small test is
\* about to be put on the queue, the run can go on round after round (the
\* second small test is released, the first gives its resources back, ends
\* and the runner resumes a small test in its place, the roles swapped) with the large
\* test on the queue throughout: every holder gives its resources back, the
\* coordinator receives every message, and the large test, which requires
\* no more than is declared, is never released.
StarvationRound == \A b \in {p \in Pending : required[p] = Big} : \A x, y \in {p \in Procs : pc[p] \in {"paused", "enqueue", "wait", "release", "done"}} : (Round0(b, x, y) => ENABLED (RecvEnqueue(y) /\ Round1(b, x, y)')) /\ (Round1(b, x, y) => ENABLED (RecvRelease(x) /\ Round2(b, x, y)')) /\ (Round2(b, x, y) => ENABLED (Restart(x, Small) /\ Round3(b, x, y)')) /\ (Round3(b, x, y) => ENABLED (Resume(x) /\ Round4(b, x, y)')) /\ (Round4(b, x, y) => ENABLED (Wake(y) /\ Round0(b, y, x)'))

\* the large test is still on the queue after a small test has given its
\* resources back and while the other small test holds its own
StarvationWitness == \E b, x, y \in Procs : Round2(b, x, y) /\ ~Infeasible(required[b])

(* ---------------------------- C13 -------------------------------------- *)

\* a test has ended: it was skipped, or it was released and gave back
Ended == \A p \in Procs : pc[p] = "skipped" \/ (pc[p] = "done" /\ p \in closed)

\* a test that went on to t.Parallel() is not skipped afterwards
SentStaysSent == \A p \in Procs : pc[p] \in {"paused", "enqueue", "wait", "release", "done"} => pc'[p] # "skipped"

\* C13: eventual admission for a finite run.  With tests of distinct names,
\* each calling Parallel once and each calling the function it got back once
\* after being released, under fair scheduling every test that was sent to
\* the coordinator is eventually released and every test eventually ends:
\* the run comes to rest with every test either skipped before it was sent,
\* or released and ended.
EventualAdmission == [][SentStaysSent]_vars /\ <>[]Ended

\* every test required something that is declared, none was skipped, all
\* have been released and have given their resources back
EventualAdmissionWitness == \A p \in Procs : pc[p] = "done" /\ p \in closed

(* ---------------------------- C14 -------------------------------------- *)

\* test q blocks on a channel that no item of the queue holds any more
Lost(q) == pc[q] = "wait" /\ q \notin closed /\ ~Queued(q)

\* the coordinator is at its select whenever a test is at a send, so the
\* send is received; a closed channel is read at once
NeverBlockedElsewhere == \A p \in Procs : (pc[p] = "enqueue" => ENABLED RecvEnqueue(p)) /\ (pc[p] = "release" => ENABLED RecvRelease(p)) /\ (pc[p] = "wait" /\ p \in closed => ENABLED Wake(p))

\* test p, inside Parallel or the closure, can take its next step
CanStep(p) == ENABLED (Resume(p) \/ RecvEnqueue(p) \/ Wake(p) \/ RecvRelease(p))

\* a test inside Parallel or the closure that cannot take a step is at the
\* receive from its wait channel, and that channel is open
SuspendsOnlyAtWait == \A p \in Procs : pc[p] \in {"paused", "enqueue", "wait", "release"} /\ ~CanStep(p) => pc[p] = "wait" /\ p \notin closed

\* C14 as stated: a test suspends only while it waits for its wait channel
\* to be closed, and every call of the closure eventually returns.
ReleaseReturnsAsStated == [](SuspendsOnlyAtWait) /\ (\A p \in Procs : pc[p] = "release" ~> pc[p] = "done")

\* as SuspendsOnlyAtWait, with the pause in t.Parallel()
SuspendsAtPauseOrWait == \A p \in Procs : pc[p] \in {"paused", "enqueue", "wait", "release"} /\ ~CanStep(p) => pc[p] = "paused" \/ (pc[p] = "wait" /\ p \notin closed)

\* C14: release never blocks indefinitely.  A test inside Parallel or the
\* closure can be without a step only while the runner keeps it paused in
\* t.Parallel() and at the receive from its wait channel while that channel
\* is open; the send of the closure is received whenever it is offered, and
\* under fair scheduling every call of the closure returns, also while other
\* tests are on the queue or block on a channel that will never be closed.
ReleaseReturns == [](NeverBlockedElsewhere /\ SuspendsAtPauseOrWait) /\ (\A p \in Procs : pc[p] = "release" ~> pc[p] = "done")

\* a test is at the send of its closure while another test is on the queue
\* and a third blocks on a channel that is never closed
ReleaseReturnsWitness == \E p, q, r \in Procs : pc[p] = "release" /\ Lost(q) /\ r \in Pending /\ Queued(r)

(* ---------------------------- C15 -------------------------------------- *)

\* the coordinator's variables right after the message it can receive next
Events == IF panic THEN {} ELSE {Enqueued(p) : p \in {x \in Procs : pc[x] = "enqueue"}} \cup {Released(p) : p \in {x \in Procs : pc[x] = "release"}}

\* the iterations of the range that starts in st and has the keys S still to
\* visit, in every order: each with the variables it starts from and its key
RECURSIVE AttemptsFrom(_, _)
AttemptsFrom(st, S) == {[s |-> st, n |-> n] : n \in S} \cup UNION {AttemptsFrom(Visit(st, n), S \ {n}) : n \in S}

\* every iteration of every pass over the queue that can come next
Attempts == UNION {AttemptsFrom(st, DOMAIN st.queue) : st \in Events}

\* the iteration released the test of its item
Succeeded(a) == a.s.queue[a.n].wait \in Visit(a.s, a.n).closed \ a.s.closed

Reserved(a) == LET t == Visit(a.s, a.n) IN (\A k \in Types : Get(t.unallocated, k) = Get(a.s.unallocated, k) - Get(a.s.queue[a.n].required, k)) /\ t.queue = Delete(a.s.queue, a.n) /\ t.closed = a.s.closed \cup {a.s.queue[a.n].wait}

Untouched(a) == LET t == Visit(a.s, a.n) IN t.unallocated = a.s.unallocated /\ t.queue = a.s.queue /\ t.closed = a.s.closed

\* C15: reservation is all-or-nothing.  Every iteration of the range over
\* the queue, in every pass and every order, either takes the required
\* quantity of every resource type of its item from the pool, removes the
\* item and closes its channel, or leaves the pool, the queue and the
\* channels as they were; the next iteration, and the next message, start
\* from one of these two.
AllOrNothing == \A a \in Attempts : a.n \in DOMAIN a.s.queue /\ (Reserved(a) \/ Untouched(a)) /\ (Succeeded(a) <=> ~Untouched(a))

\* a release is about to be received that lets the coordinator release a test
\* that requires two resource types, after which another test of the queue
\* cannot be satisfied
AllOrNothingWitness == \E p \in Procs, q, r \in Pending : pc[p] = "release" /\ q # r /\ Cardinality(DOMAIN required[q]) = 2 /\ Fits(Released(p).unallocated, q) /\ \E k \in DOMAIN required[r] : Get(required[q], k) + required[r][k] > Get(Released(p).unallocated, k)

(* ---------------------------- C16 -------------------------------------- *)

\* every resource type the item of the iteration requires is in the pool,
\* with at least the required quantity
Sufficient(a) == \A k \in DOMAIN a.s.queue[a.n].required : k \in DOMAIN a.s.unallocated /\ a.s.unallocated[k] >= a.s.queue[a.n].required[k]

\* C16: an iteration of the range releases the test of its item only if
\* every resource type the item requires is in the pool with at least the
\* required quantity; otherwise it changes nothing; and no iteration adds
\* a resource type to the pool.
AttemptSound == \A a \in Attempts : (Succeeded(a) => Sufficient(a)) /\ (~Sufficient(a) => Untouched(a)) /\ DOMAIN Visit(a.s, a.n).unallocated = DOMAIN a.s.unallocated

\* a release is about to be received after which a test on the queue finds
\* enough of one resource type it requires and not enough of another
AttemptSoundWitness == \E p \in Procs, q \in Pending : pc[p] = "release" /\ \E k, l \in DOMAIN required[q] : Get(Released(p).unallocated, k) >= required[q][k] /\ Get(Released(p).unallocated, l) < required[q][l]

(* ---------------------------- C17 -------------------------------------- *)

\* the queue has one item for a name, put there by a test of that name
OnePerName == (\A n \in DOMAIN queue : name[queue[n].wait] = n) /\ (\A p, q \in Procs : Queued(p) /\ Queued(q) /\ name[p] = name[q] => p = q)

\* in a step: the tests whose item is on the queue under the name of the
\* test whose transaction is received
Replaced == {q \in Procs : Queued(q) /\ \E p \in Sender : p # q /\ name[p] = name[q]}

OverwriteStep == \A p \in Sender : (\A q \in Replaced : ~QueuedIn(queue', q) /\ q \notin closed') /\ (name[p] \in DOMAIN queue' => queue'[name[p]] = [wait |-> p, required |-> required[p]]) /\ (name[p] \notin DOMAIN queue' => p \in closed') /\ (\A k \in Types : Get(unallocated', k) = Get(unallocated, k) - Demand(Granted, k))

\* C17: enqueue with a name that is already on the queue overwrites.  The
\* queue holds at most one item for a name; when a transaction is received
\* whose name is on the queue, the item of that name is afterwards the one
\* just sent, with its resources and its channel (or that test has been
\* released by the pass that follows), the test whose item was there is
\* neither on the queue nor released, and the pool changes only by what the
\* pass takes for the tests it releases.
DuplicateOverwrites == [](OnePerName) /\ [][OverwriteStep]_vars

\* the item of one test has taken the place of the item of another test of
\* the same name, which still waits
DuplicateOverwritesWitness == \E p, q \in Procs : p # q /\ name[p] = name[q] /\ Queued(p) /\ Lost(q)

(* ---------------------------- C18 -------------------------------------- *)

\* a test whose item is replaced blocks on a channel no item holds, and a
\* test that blocks on such a channel still does after any step
LostStep == \A q \in Procs : (q \in Replaced => Lost(q)') /\ (Lost(q) => Lost(q)' /\ q \notin Granted)

\* while a test blocks on such a channel, the pool and the tests that were
\* released account for all the declared resources: none is kept for it
NothingKeptForLost == \A q \in Procs : Lost(q) => q \notin Held /\ \A k \in Types : Get(unallocated, k) + Demand(Held \ {q}, k) = Get(available, k)

\* C18: lost wake-up on overwrite.  When the item of a waiting test is
\* replaced by a transaction of the same name, no later pass over the queue
\* closes the channel of the replaced item: the test that sent it blocks at
\* its receive in every later state, and no resources are taken from the
\* pool for it.
LostWakeup == [](NothingKeptForLost) /\ [][LostStep]_vars

\* every other test has ended and all the resources are back in the pool,
\* and the test whose item was replaced still blocks
LostWakeupWitness == \E q \in Procs : Lost(q) /\ (\A p \in Procs \ {q} : pc[p] = "done") /\ (\A k \in DOMAIN available : unallocated[k] = available[k])

(* ---------------------------- C19 -------------------------------------- *)

\* a step that receives a transaction releases at most the test that sent
\* it, and the tests that waited before still wait, their items on the queue
EnqueueGrantsSender == Sender # {} => Granted \subseteq Sender /\ \A q \in Pending : q \notin closed' /\ pc'[q] = "wait" /\ (Queued(q) => QueuedIn(queue', q))

\* a step that releases more than one test is one that receives a release
SeveralOnlyByRelease == Cardinality(Granted) > 1 => Releaser # {} /\ Sender = {}

\* C19: the pass over the queue that follows the receipt of a transaction
\* releases no test other than the one that sent it: the tests that waited
\* before the message still wait after the pass.  Only a pass that follows
\* the receipt of a release releases more than one test.
OnlySenderGranted == [][EnqueueGrantsSender /\ SeveralOnlyByRelease]_vars

\* while a test holds resources, a transaction is about to be received whose
\* resources are free, and another test is on the queue for resources that
\* are not
OnlySenderGrantedWitness == \E p, q \in Procs, h \in Held : pc[p] = "enqueue" /\ Fits(unallocated, p) /\ q \in Pending /\ Queued(q) /\ ~Fits(unallocated, q)

(* ---------------------------- C20 -------------------------------------- *)

\* in a step: the test whose release, first or second, was received
AnyReleaser == {p \in Procs : (pc[p] = "release" /\ pc'[p] \in {"again", "done"}) \/ (pc[p] = "again" /\ pc'[p] = "done")}

\* the pool gets the whole amount of the release, less what the pass that
\* follows takes for the tests it releases
ReleaseAddsAll == \A p \in AnyReleaser : \A k \in Types : Get(unallocated', k) = Get(unallocated, k) + Get(required[p], k) - Demand(Granted, k)

\* the send of a second call of the closure is received like the first
SecondReleaseTaken == \A p \in Procs : pc[p] = "again" => ENABLED RecvReleaseAgain(p)

\* C20: release is unvalidated.  Every release that is received adds its
\* whole amount to the pool for every resource type in it, also when the
\* test that sends it holds nothing any more, and a second call of the
\* closure is received like the first; so the pool can hold more than was
\* declared, and the tests released afterwards can together hold more than
\* was declared.
ReleaseUnvalidated == [](SecondReleaseTaken) /\ [][ReleaseAddsAll]_vars

\* after a closure was called twice, the pool has held more than was
\* declared and the tests that hold resources now require together more
\* than was declared
ReleaseUnvalidatedWitness == \E k \in DOMAIN available : Demand(Held, k) > available[k] /\ Get(unallocated, k) + Demand(Held, k) > available[k]

====
